---- MODULE Spec2Model ----
(***************************************************************************)
(* Summary generation and caching workflow of the llama3 service            *)
(* (src/llama3_service/routes.py) over the book_summaries table             *)
(* (src/llama3_service/models.py).                                          *)
(*                                                                          *)
(* Every inbound request is an independent task.  A task is split at the    *)
(* awaits at which another task can touch the table: the cache SELECT, the  *)
(* backend call, the COMMIT and the re-SELECT of db.refresh.  The Catalog   *)
(* Service and the text-generation backend are external: their replies are  *)
(* inputs chosen at the step that awaits them.                              *)
(*                                                                          *)
(* Timestamps come from a logical clock `now` that is read by a flush and   *)
(* then advances, so two commits never read the same instant.  A failure    *)
(* of the store itself is an input of the commit steps.  A handler's call   *)
(* of log_action is counted in the step that makes it.                      *)
(*                                                                          *)
(* The Catalog (src/book_service), Review (src/review_service) and          *)
(* Recommendation (src/recommendation_service) services and log_action      *)
(* each have their own variables and their own specification; a handler of  *)
(* these services is one action, computed by an operator from the table     *)
(* and the request's inputs.                                                *)
(***************************************************************************)
EXTENDS Integers, FiniteSets, Sequences, TLC

\* ---------------------------------------------------------------- bounds
MaxCalls == 3

\* Two request tasks run concurrently; a slot is taken again once its task
\* has returned.
Reqs == {1, 2}
Books == {1}
Users == {1, 2}
Pairs == Books \X Users
Contents == {"", "A", "B"}
Texts == {"S1", "S2"}

\* Replies of the Catalog Service to GET /books/{id}: three status classes
\* the code tells apart, any other status, and a transport failure.
CatalogReplies == {"200", "404", "401", "other", "unreachable"}

\* Replies of the text-generation backend to POST /api/generate.
BackendReplies == {"ok", "missing_field", "status_401", "status_500", "unreachable"}

\* ---------------------------------------------------------------- values
NoRow ==
  [id |-> 0, book_id |-> 0, user_id |-> 0, content |-> "", summary |-> "none",
   created_at |-> 0, updated_at |-> 0]

NoResp == [status |-> 0, detail |-> "none", row |-> NoRow]

IdleReq ==
  [pc |-> "idle", op |-> "none", book_id |-> 0, user_id |-> 0, content |-> "",
   refresh |-> FALSE, existing |-> NoRow, summary |-> "none", resp |-> NoResp,
   row_id |-> 0, reply |-> "none", calls |-> 0, wrote |-> FALSE,
   fault |-> FALSE, had |-> FALSE, n0 |-> 0, logs |-> 0]

NoLast ==
  [n |-> 0, op |-> "none", book_id |-> 0, user_id |-> 0, refresh |-> FALSE,
   had |-> FALSE, calls |-> 0, resp |-> NoResp]

\* ------------------------------------------------ Catalog Service values
\* Ids the books sequence hands out, and the fields of a BookCreate payload.
BookIds == {1, 2}
Titles == {"T1", "T2"}

\* None, for an Optional[str] field or a nullable Text column.
NullText == "null"

\* BookCreate.summary: absent, empty, or a text.
RawSummaries == {NullText, "", "A"}
BookPayloads == [title : Titles, summary : RawSummaries]

\* Replies of the llama3 service to POST /api/v1/generate-summary: 200 with
\* and without a "summary" field, 401, any other status, transport failure.
LlamaReplies == {"200", "200_no_summary", "401", "other", "unreachable"}

\* Where the store fails during a handler, if it does.
StoreFaults == {"none", "select", "commit"}

NoBook == [id |-> 0, title |-> "", summary |-> NullText]
NoPayload == [title |-> "", summary |-> NullText]
NoBookResp == [status |-> 0, detail |-> "none", book |-> NoBook]
NoBookCall ==
  [op |-> "none", id |-> 0, book |-> NoPayload, fault |-> "none",
   reply |-> "none", gen |-> "not_called", gen_calls |-> 0, gen_id |-> 0,
   resp |-> NoBookResp, logs |-> 0]

\* ------------------------------------------------- Review Service values
ReviewIds == {1, 2, 3}
ReviewBooks == {1, 2}
Reviewers == {1}

\* ReviewBase.rating: confloat(ge=1.0, le=5.0).
RatingMin == 1
RatingMax == 5
RatingInputs == {0, 2, 5}
Comments == {NullText, "good"}

\* get_book_reviews_summary cuts the joined comments at this length.
SummaryLimit == 500

\* A quotient kept exact, in lowest terms; den = 0 is SQL NULL (AVG of no rows).
NullAverage == [num |-> 0, den |-> 0]

NoReview ==
  [id |-> 0, book_id |-> 0, user_id |-> 0, rating |-> 0, comment |-> NullText]
NoSummaryBody ==
  [book_id |-> 0, summary |-> "", average_rating |-> NullAverage,
   total_reviews |-> 0]
NoReviewResp ==
  [status |-> 0, detail |-> "none", review |-> NoReview, body |-> NoSummaryBody]
NoReviewCall ==
  [op |-> "none", review_id |-> 0, book_id |-> 0, user_id |-> 0, rating |-> 0,
   comment |-> NullText, fault |-> "none", llama |-> "none",
   llama_text |-> "none", gen_calls |-> 0, resp |-> NoReviewResp, logs |-> 0]

\* ----------------------------------------- Recommendation Service values
PrefIds == {1, 2, 3}
Genres == {"Fiction", "SciFi"}
GenreInputs == Genres \cup {""}
CatalogBookIds == {7, 8}

\* Answers of the Catalog Service to one GET /books?genre=g: a list of books
\* (a book is identified by its id), 401, another status, transport failure.
CatalogAnswers ==
  [status : {"200"}, books : {<<>>, <<7>>, <<8>>, <<7, 8>>}]
    \cup [status : {"401", "other", "unreachable"}, books : {<<>>}]

OkAnswers == {a \in CatalogAnswers : a.status = "200"}

\* The answers the Catalog Service gives to the queries of one request that
\* asks for at most n genres, in the order the queries are issued: n lists,
\* or fewer answers of which the last one is the first failure.
AnswerSeqs(n) ==
  [1..n -> OkAnswers]
    \cup UNION {{Append(given, failure) :
                   given \in [1..k -> OkAnswers],
                   failure \in CatalogAnswers \ OkAnswers} : k \in 0..(n - 1)}

NoPref == [id |-> 0, user_id |-> 0, genre |-> ""]
NoRecResp ==
  [status |-> 0, detail |-> "none", items |-> <<>>, pref |-> NoPref,
   prefs |-> <<>>]
NoRecCall ==
  [op |-> "none", user_id |-> 0, genre |-> "", fault |-> "none",
   answers |-> <<>>, queries |-> <<>>, resp |-> NoRecResp, logs |-> 0]

\* ------------------------------------------------------ log_action values
LogModules == {"llama3_service", "book_service"}
LogStatuses == {"success", "error"}

\* Replies of the shared service to POST /logs.
SinkReplies == {"200", "non200", "unreachable"}

\* Status of the response the calling handler has prepared.
PendingResponses == {200, 404, 500}

IdleLog ==
  [pc |-> "idle", module |-> "none", user_id |-> 0, status |-> "none",
   pending |-> 0, response |-> 0, posts |-> 0, errors |-> 0, sink |-> "none"]

\* ------------------------------------------------ Credential Verifier values
\* The users table of the shared service (register is not modelled).
UserTable ==
  {[id |-> 1, username |-> "alice", password |-> "pw1"],
   [id |-> 2, username |-> "bob", password |-> "pw2"]}
Usernames == {"alice", "bob", "mallory"}
Passwords == {"pw1", "pw2"}

\* What can go wrong while the login endpoint is asked: nothing, a failure
\* of its store, or the request never reaching it.
LoginFaults == {"none", "store", "unreachable"}

NoAuthCall ==
  [service |-> "none", op |-> "none", username |-> "", password |-> "",
   fault |-> "none", status |-> 0, user_id |-> 0, ran |-> FALSE]

VARIABLES
  store,     \* rows of book_summaries
  nextId,    \* the autoincrement sequence of book_summaries.id
  now,       \* logical clock read by datetime.utcnow
  req,       \* the request tasks in flight, by slot
  issued,    \* number of requests received so far
  last,      \* the call that returned most recently, and how many have returned
  books,     \* rows of the Catalog Service's books table
  bookSeq,   \* the autoincrement sequence of books.id
  bcall,     \* the Catalog request handled last: inputs and outcome
  reviews,   \* rows of the Review Service's reviews table
  reviewSeq, \* the autoincrement sequence of reviews.id
  rcall,     \* the Review request handled last: inputs and outcome
  prefs,     \* rows of the preferences table, in id order
  pcall,     \* the Recommendation request handled last: inputs and outcome
  logc,      \* the log_action call in progress: position and effects
  audit,     \* entries the shared service has stored
  acall      \* the protected request authenticated last: credentials, verdict

llamaVars == <<store, nextId, now, req, issued, last>>
bookVars == <<books, bookSeq, bcall>>
reviewVars == <<reviews, reviewSeq, rcall>>
recVars == <<prefs, pcall>>
auditVars == <<logc, audit, acall>>

\* What the llama3 service does not touch.
svcVars == <<bookVars, reviewVars, recVars, auditVars>>

vars == <<llamaVars, bookVars, reviewVars, recVars, auditVars>>

\* ---------------------------------------------------------------- helpers
HTTPError(code, detail) == [status |-> code, detail |-> detail, row |-> NoRow]

\* _create_summary_response: the response carries the row's fields.
CreateSummaryResponse(row) == [status |-> 200, detail |-> "ok", row |-> row]

\* Mutant of ValidContent: no min_length.
ValidContentAny(c) == TRUE

\* BookSummaryBase: content has min_length=1, rejected before the handler runs.
ValidContent(c) == Len(c) >= 1

RowsOfAnyUser(b, u) == {row \in store : row.book_id = b}

\* select(BookSummary).where(book_id == b, user_id == u)
Rows(b, u) == {row \in store : row.book_id = b /\ row.user_id = u}

VerifyBookExistsIgnores404(cat) ==
  CASE cat \in {"200", "404"} -> NoResp
    [] cat = "401" -> HTTPError(401, "book_service_auth_failed")
    [] cat = "unreachable" -> HTTPError(503, "book_service_unavailable")
    [] OTHER -> HTTPError(500, "book_service_error")

\* verify_book_exists: 0 stands for "returns True"; otherwise the response of
\* the HTTPException that ends the request (404 is raised by the handler on
\* a False result).
VerifyBookExists(cat) ==
  CASE cat = "200" -> NoResp
    [] cat = "404" -> HTTPError(404, "book_not_found")
    [] cat = "401" -> HTTPError(401, "book_service_auth_failed")
    [] cat = "unreachable" -> HTTPError(503, "book_service_unavailable")
    [] OTHER -> HTTPError(500, "book_service_error")

\* Mutant of GenerateSummaryError: the "response" field is not checked.
GenerateSummaryErrorNoFieldCheck(reply) ==
  CASE reply \in {"ok", "missing_field"} -> NoResp
    [] reply = "unreachable" -> HTTPError(503, "ollama_connect_failed")
    [] OTHER -> HTTPError(500, "unexpected_generation_error")

\* _generate_summary: the HTTPExceptions raised inside the try block for a
\* non-200 status or a missing "response" field are not httpx.RequestError,
\* so the trailing `except Exception` catches and re-raises them as 500
\* "Unexpected error during summary generation".
GenerateSummaryError(reply) ==
  CASE reply = "ok" -> NoResp
    [] reply = "unreachable" -> HTTPError(503, "ollama_connect_failed")
    [] OTHER -> HTTPError(500, "unexpected_generation_error")

\* The handler's own `except Exception` branch.
InternalError == HTTPError(500, "error_generating_summary")

\* Mutant of UniqueViolation: the index is not unique.
UniqueViolationOff(rows, b, u) == FALSE

\* idx_book_summaries_unique on (book_id, user_id)
UniqueViolation(rows, b, u) ==
  \E row \in rows : row.book_id = b /\ row.user_id = u

Set(r, new) == req' = [req EXCEPT ![r] = new]

\* The handler calls log_action and ends with the response.
Finish(r, response) ==
  [req[r] EXCEPT !.pc = "done", !.resp = response, !.logs = @ + 1]

\* Mutant of CacheHit: the cache is never consulted.
CacheHitNever(found, refresh) == FALSE

\* `if existing_summary and not refresh`: answer from the cache.
CacheHit(found, refresh) == found # NoRow /\ ~refresh

\* A new task takes the lowest free slot (the slots are interchangeable).
LowestIdle(r) == \A q \in Reqs : req[q].pc = "idle" => r <= q

\* A task that has built its response has nothing left to do but return it:
\* it returns before any other task takes its next step.
NoneDone == \A q \in Reqs : req[q].pc # "done"

\* ---------------------------------------------------------------- state
Init ==
  /\ store = {}
  /\ nextId = 1
  /\ now = 1
  /\ req = [r \in Reqs |-> IdleReq]
  /\ issued = 0
  /\ last = NoLast
  /\ books = {} /\ bookSeq = 1 /\ bcall = NoBookCall
  /\ reviews = {} /\ reviewSeq = 1 /\ rcall = NoReviewCall
  /\ prefs = <<>> /\ pcall = NoRecCall
  /\ logc = IdleLog /\ audit = {} /\ acall = NoAuthCall

\* ------------------------------------------------------- generate_summary
\* POST /generate-summary arrives: body validation, then the handler's first
\* await, verify_book_exists.  Neither touches the table.  The HTTPException
\* of a failed check leaves through `except HTTPException: raise`, which
\* does not call log_action.
ReceiveGenerateSummary(r, b, u, c, f, cat) ==
  /\ req[r].pc = "idle"
  /\ NoneDone
  /\ LowestIdle(r)
  /\ issued < MaxCalls
  /\ issued' = issued + 1
  /\ LET me == [IdleReq EXCEPT !.op = "generate_summary", !.book_id = b,
                               !.user_id = u, !.content = c, !.refresh = f,
                               !.had = Rows(b, u) # {}, !.n0 = last.n]
     IN  IF ~ValidContent(c)
           THEN Set(r, [me EXCEPT !.pc = "done",
                                  !.resp = HTTPError(422, "validation_error")])
           ELSE IF VerifyBookExists(cat).status # 0
                  THEN Set(r, [me EXCEPT !.pc = "done",
                                         !.resp = VerifyBookExists(cat)])
                  ELSE Set(r, [me EXCEPT !.pc = "lookup"])
  /\ UNCHANGED <<store, nextId, now, last, svcVars>>

\* existing_summary = await self.get_cached_summary(...); a hit without
\* refresh answers from the loaded row.  scalar_one_or_none raises when
\* several rows match, which the handler turns into its generic 500.
GetCachedSummary(r) ==
  /\ req[r].pc = "lookup"
  /\ NoneDone
  /\ LET me == req[r]
         rows == Rows(me.book_id, me.user_id)
     IN  IF Cardinality(rows) > 1
           THEN Set(r, Finish(r, InternalError))
           ELSE LET found == IF rows = {} THEN NoRow ELSE CHOOSE x \in rows : TRUE
                IN  IF CacheHit(found, me.refresh)
                      THEN Set(r, [me EXCEPT !.pc = "done", !.existing = found,
                                             !.resp = CreateSummaryResponse(found),
                                             !.logs = @ + 1])
                      ELSE Set(r, [me EXCEPT !.pc = "generate", !.existing = found,
                                             !.row_id = found.id])
  /\ UNCHANGED <<store, nextId, now, issued, last, svcVars>>

\* summary = await self._generate_summary(request.content): one POST, whose
\* failure ends the request.
GenerateSummaryCall(r, reply, text) ==
  /\ req[r].pc = "generate"
  /\ NoneDone
  /\ LET me == [req[r] EXCEPT !.calls = @ + 1, !.reply = reply]
     IN  IF GenerateSummaryError(reply).status # 0
           THEN Set(r, [me EXCEPT !.pc = "done", !.resp = GenerateSummaryError(reply)])
           ELSE Set(r, [me EXCEPT !.pc = "commit", !.summary = text])
  /\ UNCHANGED <<store, nextId, now, issued, last, svcVars>>
\* Mutant of FlushUpdate: updated_at has no onupdate.
FlushUpdateNoTouch(rows, loaded, c, s, t) ==
  {IF row.id # loaded.id THEN row
   ELSE [row EXCEPT !.content = c, !.summary = s] : row \in rows}

\* Mutant of FlushUpdate: the row is replaced by a fresh one.
FlushUpdateReplace(rows, loaded, c, s, t) ==
  {IF row.id # loaded.id THEN row
   ELSE [row EXCEPT !.content = c, !.summary = s, !.created_at = t,
                    !.updated_at = t] : row \in rows}

\* The UPDATE a flush emits for the loaded row: the unit of work compares each
\* assigned attribute with the value it loaded and writes only those that
\* differ; updated_at (onupdate=datetime.utcnow) is set by that UPDATE and by
\* nothing else, so without a difference no statement is sent.
FlushUpdate(rows, loaded, c, s, t) ==
  IF c = loaded.content /\ s = loaded.summary
    THEN rows
    ELSE {IF row.id # loaded.id THEN row
          ELSE [row EXCEPT !.content = IF c # loaded.content THEN c ELSE @,
                           !.summary = IF s # loaded.summary THEN s ELSE @,
                           !.updated_at = t] : row \in rows}

\* The INSERT a flush emits for db.add(db_summary): created_at and updated_at
\* take their default, the id comes from the sequence.
NewRow(id, b, u, c, s, t) ==
  [id |-> id, book_id |-> b, user_id |-> u, content |-> c, summary |-> s,
   created_at |-> t, updated_at |-> t]

\* Mutant of FlushInsert: the row stays although the commit raised.
FlushInsertNoRollback(rows, row, ok) ==
  IF UniqueViolation(rows, row.book_id, row.user_id) THEN rows ELSE rows \cup {row}

\* db.add + db.commit in one transaction: the row is in the table only if the
\* commit went through, and the unique index rejects a second row for a pair.
FlushInsert(rows, row, ok) ==
  IF ok /\ ~UniqueViolation(rows, row.book_id, row.user_id)
    THEN rows \cup {row}
    ELSE rows

\* Refresh path: assign content and summary on the loaded row, db.commit().
CommitUpdate(r, ok) ==
  /\ req[r].pc = "commit"
  /\ NoneDone
  /\ req[r].existing # NoRow
  /\ LET me == req[r]
         rows == FlushUpdate(store, me.existing, me.content, me.summary, now)
     IN  IF ~ok
           THEN /\ Set(r, [me EXCEPT !.pc = "done", !.fault = TRUE,
                                      !.resp = InternalError, !.logs = @ + 1])
                /\ UNCHANGED <<store, now>>
           ELSE /\ store' = rows
                /\ now' = IF rows # store THEN now + 1 ELSE now
                /\ Set(r, [me EXCEPT !.pc = "refresh", !.wrote = (rows # store)])
  /\ UNCHANGED <<nextId, issued, last, svcVars>>

\* Create path: db.add(db_summary), db.commit().  The unique index rejects a
\* second row for the pair; the IntegrityError reaches `except Exception`.
\* The sequence value drawn by a rejected INSERT is not given back.
CommitInsert(r, ok) ==
  /\ req[r].pc = "commit"
  /\ NoneDone
  /\ req[r].existing = NoRow
  /\ LET me == req[r]
         row == NewRow(nextId, me.book_id, me.user_id, me.content, me.summary, now)
     IN  /\ store' = FlushInsert(store, row, ok)
         /\ IF ~ok
              THEN /\ Set(r, [me EXCEPT !.pc = "done", !.fault = TRUE,
                                        !.resp = InternalError, !.logs = @ + 1])
                   /\ UNCHANGED <<nextId, now>>
              ELSE /\ nextId' = nextId + 1
                   /\ now' = now + 1
                   /\ IF UniqueViolation(store, me.book_id, me.user_id)
                        THEN Set(r, Finish(r, InternalError))
                        ELSE Set(r, [me EXCEPT !.pc = "refresh", !.row_id = row.id,
                                               !.wrote = TRUE])
  /\ UNCHANGED <<issued, last, svcVars>>

\* await db.refresh(obj): re-SELECT the row by primary key, then answer.
RefreshRow(r) ==
  /\ req[r].pc = "refresh"
  /\ NoneDone
  /\ LET me == req[r]
         rows == {row \in store : row.id = me.row_id}
     IN  IF rows = {}
           THEN Set(r, Finish(r, InternalError))
           ELSE Set(r, Finish(r, CreateSummaryResponse(CHOOSE x \in rows : TRUE)))
  /\ UNCHANGED <<store, nextId, now, issued, last, svcVars>>

\* ------------------------------------------------------------ get_summary
\* GET /summaries/{book_id}: one SELECT scoped to the authenticated user.
\* The 404 is raised inside the try block and re-raised by
\* `except HTTPException: raise`, without a call of log_action.
GetSummary(r, b, u) ==
  /\ req[r].pc = "idle"
  /\ NoneDone
  /\ LowestIdle(r)
  /\ issued < MaxCalls
  /\ issued' = issued + 1
  /\ LET me == [IdleReq EXCEPT !.op = "get_summary", !.book_id = b, !.user_id = u,
                               !.had = Rows(b, u) # {}, !.n0 = last.n, !.pc = "done"]
         rows == Rows(b, u)
     IN  IF Cardinality(rows) > 1
           THEN Set(r, [me EXCEPT !.resp = InternalError, !.logs = @ + 1])
           ELSE IF rows = {}
             THEN Set(r, [me EXCEPT !.resp = HTTPError(404, "summary_not_found")])
             ELSE Set(r, [me EXCEPT !.existing = CHOOSE x \in rows : TRUE,
                                    !.resp = CreateSummaryResponse(CHOOSE x \in rows : TRUE),
                                    !.logs = @ + 1])
  /\ UNCHANGED <<store, nextId, now, last, svcVars>>

\* The response leaves the service and the task ends; the tasks still in
\* flight keep their order of arrival in the slots.
Return(r) ==
  /\ req[r].pc = "done"
  /\ req' = [q \in Reqs |-> IF q < r THEN req[q]
                            ELSE IF q + 1 \in Reqs THEN req[q + 1] ELSE IdleReq]
  /\ UNCHANGED <<store, nextId, now, issued, last, svcVars>>

\* The same, observed by a client that issues its calls one after the other
\* and keeps the outcome of the call that just returned.
ReturnToClient(r) ==
  /\ req[r].pc = "done"
  /\ req' = [req EXCEPT ![r] = IdleReq]
  /\ last' = [n |-> last.n + 1, op |-> req[r].op, book_id |-> req[r].book_id,
              user_id |-> req[r].user_id, refresh |-> req[r].refresh,
              had |-> req[r].had, calls |-> req[r].calls, resp |-> req[r].resp]
  /\ UNCHANGED <<store, nextId, now, issued, svcVars>>

AllIdle == \A q \in Reqs : req[q].pc = "idle"

Next ==
  \/ \E r \in Reqs, p \in Pairs, c \in Contents, f \in BOOLEAN,
        cat \in CatalogReplies : ReceiveGenerateSummary(r, p[1], p[2], c, f, cat)
  \/ \E r \in Reqs : GetCachedSummary(r)
  \/ \E r \in Reqs, reply \in BackendReplies, text \in Texts :
        GenerateSummaryCall(r, reply, text)
  \/ \E r \in Reqs, ok \in BOOLEAN : CommitUpdate(r, ok)
  \/ \E r \in Reqs, ok \in BOOLEAN : CommitInsert(r, ok)
  \/ \E r \in Reqs : RefreshRow(r)
  \/ \E r \in Reqs, p \in Pairs : GetSummary(r, p[1], p[2])
  \/ \E r \in Reqs : Return(r)

Spec == Init /\ [][Next]_vars

\* Successive calls: a call is issued only after the previous one returned.
SeqNext ==
  \/ \E r \in Reqs, p \in Pairs, c \in Contents, f \in BOOLEAN,
        cat \in CatalogReplies :
        AllIdle /\ ReceiveGenerateSummary(r, p[1], p[2], c, f, cat)
  \/ \E r \in Reqs : GetCachedSummary(r)
  \/ \E r \in Reqs, reply \in BackendReplies, text \in Texts :
        GenerateSummaryCall(r, reply, text)
  \/ \E r \in Reqs, ok \in BOOLEAN : CommitUpdate(r, ok)
  \/ \E r \in Reqs, ok \in BOOLEAN : CommitInsert(r, ok)
  \/ \E r \in Reqs : RefreshRow(r)
  \/ \E r \in Reqs, p \in Pairs : AllIdle /\ GetSummary(r, p[1], p[2])
  \/ \E r \in Reqs : ReturnToClient(r)

SeqSpec == Init /\ [][SeqNext]_vars

\* ======================================================= Catalog Service
\* src/book_service/routes.py.  A request is handled in one step: the
\* outcome operators below follow a handler from its first statement to its
\* return or raise, with the replies of the store and of the llama3 service
\* as inputs.
TruthyNotNull(text) == text # NullText

\* `if book.summary:` holds for a text that is neither None nor empty.
Truthy(text) == text # NullText /\ Len(text) >= 1

BookError(code, detail) == [status |-> code, detail |-> detail, book |-> NoBook]

\* response_model=BookResponse: the response carries the row's fields.
BookResponse(row) == [status |-> 200, detail |-> "ok", book |-> row]

\* generate_book_summary: one POST to the llama3 service.  A 200 yields
\* response.json()["summary"] (a KeyError without that field); 401, any other
\* status and a transport failure raise HTTPException 401, 500 and 503.
GenerateBookSummary(reply, text) ==
  CASE reply = "200" -> [ok |-> TRUE, summary |-> text, raised |-> "none"]
    [] reply = "200_no_summary" ->
         [ok |-> FALSE, summary |-> NullText, raised |-> "KeyError"]
    [] reply = "401" ->
         [ok |-> FALSE, summary |-> NullText, raised |-> "HTTPException_401"]
    [] reply = "unreachable" ->
         [ok |-> FALSE, summary |-> NullText, raised |-> "HTTPException_503"]
    [] OTHER ->
         [ok |-> FALSE, summary |-> NullText, raised |-> "HTTPException_500"]

\* Mutant of SummaryField: a failed generation clears the field.
SummaryFieldDropsRaw(raw, gen) == IF gen.ok THEN gen.summary ELSE NullText

\* The inner try of create_book and update_book: db_book.summary is assigned
\* the generated text; any exception of generate_book_summary is caught by
\* `except Exception`, logged as a warning, and the field keeps the payload's
\* text that Book(**book.dict()) or setattr gave it.
SummaryField(raw, gen) == IF gen.ok THEN gen.summary ELSE raw

\* How the summary generation of a request went.
GenOutcome(raw, gen) ==
  IF ~Truthy(raw) THEN "not_called" ELSE IF gen.ok THEN "ok" ELSE "failed"

\* select(Book).where(Book.id == book_id)
BookById(rows, id) == {row \in rows : row.id = id}

\* create_book: INSERT and commit, then, for a non-empty summary text, the
\* generation and a second commit of the generated text; log_action; return.
\* A failed first commit is rolled back and answered 500 after log_action.
CreateBookOutcome(rows, seq, book, fault, reply, text) ==
  IF fault = "commit"
    THEN [books |-> rows, seq |-> seq, gen |-> "not_called", reply |-> "none",
          gen_calls |-> 0, gen_id |-> 0,
          resp |-> BookError(500, "error_creating_book"), logs |-> 1]
    ELSE LET gen == GenerateBookSummary(reply, text)
             row == [id |-> seq, title |-> book.title,
                     summary |-> IF Truthy(book.summary)
                                   THEN SummaryField(book.summary, gen)
                                   ELSE book.summary]
         IN  [books |-> rows \cup {row}, seq |-> seq + 1,
              gen |-> GenOutcome(book.summary, gen),
              reply |-> IF Truthy(book.summary) THEN reply ELSE "none",
              gen_calls |-> IF Truthy(book.summary) THEN 1 ELSE 0,
              gen_id |-> IF Truthy(book.summary) THEN seq ELSE 0,
              resp |-> BookResponse(row), logs |-> 1]

\* get_book: one SELECT; 404 after log_action when no row has the id.
GetBookOutcome(rows, id, fault) ==
  IF fault = "select"
    THEN [resp |-> BookError(500, "error_fetching_book"), logs |-> 1]
    ELSE IF BookById(rows, id) = {}
      THEN [resp |-> BookError(404, "book_not_found"), logs |-> 1]
      ELSE [resp |-> BookResponse(CHOOSE row \in BookById(rows, id) : TRUE),
            logs |-> 1]

\* update_book: SELECT, setattr of every payload field, for a non-empty
\* summary text the generation, then one commit; log_action; return.  A
\* failure of the store is rolled back and answered 500 after log_action.
UpdateBookOutcome(rows, id, book, fault, reply, text) ==
  IF fault = "select"
    THEN [books |-> rows, gen |-> "not_called", reply |-> "none",
          gen_calls |-> 0, gen_id |-> 0,
          resp |-> BookError(500, "error_updating_book"), logs |-> 1]
    ELSE IF BookById(rows, id) = {}
      THEN [books |-> rows, gen |-> "not_called", reply |-> "none",
            gen_calls |-> 0, gen_id |-> 0,
            resp |-> BookError(404, "book_not_found"), logs |-> 1]
      ELSE LET gen == GenerateBookSummary(reply, text)
               row == [id |-> id, title |-> book.title,
                       summary |-> IF Truthy(book.summary)
                                     THEN SummaryField(book.summary, gen)
                                     ELSE book.summary]
               called == IF Truthy(book.summary) THEN reply ELSE "none"
               calls == IF Truthy(book.summary) THEN 1 ELSE 0
               sent == IF Truthy(book.summary) THEN id ELSE 0
           IN  IF fault = "commit"
                 THEN [books |-> rows, gen |-> GenOutcome(book.summary, gen),
                       reply |-> called, gen_calls |-> calls,
                       gen_id |-> sent,
                       resp |-> BookError(500, "error_updating_book"),
                       logs |-> 1]
                 ELSE [books |-> (rows \ BookById(rows, id)) \cup {row},
                       gen |-> GenOutcome(book.summary, gen), reply |-> called,
                       gen_calls |-> calls, gen_id |-> sent,
                       resp |-> BookResponse(row), logs |-> 1]

\* delete_book: SELECT, DELETE and commit; log_action; return.
DeleteBookOutcome(rows, id, fault) ==
  IF fault = "select"
    THEN [books |-> rows, resp |-> BookError(500, "error_deleting_book"),
          logs |-> 1]
    ELSE IF BookById(rows, id) = {}
      THEN [books |-> rows, resp |-> BookError(404, "book_not_found"),
            logs |-> 1]
      ELSE IF fault = "commit"
        THEN [books |-> rows, resp |-> BookError(500, "error_deleting_book"),
              logs |-> 1]
        ELSE [books |-> rows \ BookById(rows, id),
              resp |-> [status |-> 200, detail |-> "deleted", book |-> NoBook],
              logs |-> 1]

\* POST /books
CreateBook(book, fault, reply, text) ==
  /\ bookSeq \in BookIds
  /\ LET out == CreateBookOutcome(books, bookSeq, book, fault, reply, text)
     IN  /\ books' = out.books
         /\ bookSeq' = out.seq
         /\ bcall' = [op |-> "create_book", id |-> 0, book |-> book,
                      fault |-> fault, reply |-> out.reply, gen |-> out.gen,
                      gen_calls |-> out.gen_calls, gen_id |-> out.gen_id,
                      resp |-> out.resp, logs |-> out.logs]
  /\ UNCHANGED <<llamaVars, reviewVars, recVars, auditVars>>

\* GET /books/{book_id}
GetBook(id, fault) ==
  /\ LET out == GetBookOutcome(books, id, fault)
     IN  bcall' = [op |-> "get_book", id |-> id, book |-> NoPayload,
                   fault |-> fault, reply |-> "none", gen |-> "not_called",
                   gen_calls |-> 0, gen_id |-> 0,
                   resp |-> out.resp, logs |-> out.logs]
  /\ UNCHANGED <<books, bookSeq, llamaVars, reviewVars, recVars, auditVars>>

\* PUT /books/{book_id}
UpdateBook(id, book, fault, reply, text) ==
  /\ LET out == UpdateBookOutcome(books, id, book, fault, reply, text)
     IN  /\ books' = out.books
         /\ bcall' = [op |-> "update_book", id |-> id, book |-> book,
                      fault |-> fault, reply |-> out.reply, gen |-> out.gen,
                      gen_calls |-> out.gen_calls, gen_id |-> out.gen_id,
                      resp |-> out.resp, logs |-> out.logs]
  /\ UNCHANGED <<bookSeq, llamaVars, reviewVars, recVars, auditVars>>

\* DELETE /books/{book_id}
DeleteBook(id, fault) ==
  /\ LET out == DeleteBookOutcome(books, id, fault)
     IN  /\ books' = out.books
         /\ bcall' = [op |-> "delete_book", id |-> id, book |-> NoPayload,
                      fault |-> fault, reply |-> "none", gen |-> "not_called",
                      gen_calls |-> 0, gen_id |-> 0,
                      resp |-> out.resp, logs |-> out.logs]
  /\ UNCHANGED <<bookSeq, llamaVars, reviewVars, recVars, auditVars>>

\* The replies of the llama3 service a request can meet: none is awaited
\* without a summary text, and only a 200 carries a generated text.
GenerationInputs(raw) ==
  IF ~Truthy(raw)
    THEN {[reply |-> "none", text |-> NullText]}
    ELSE [reply : {"200"}, text : Texts]
           \cup [reply : LlamaReplies \ {"200"}, text : {NullText}]

BookNext ==
  \/ \E book \in BookPayloads, fault \in {"none", "commit"} :
        \E g \in GenerationInputs(book.summary) :
          CreateBook(book, fault, g.reply, g.text)
  \/ \E id \in BookIds, fault \in {"none", "select"} : GetBook(id, fault)
  \/ \E id \in BookIds, book \in BookPayloads, fault \in StoreFaults :
        \E g \in GenerationInputs(book.summary) :
          UpdateBook(id, book, fault, g.reply, g.text)
  \/ \E id \in BookIds, fault \in StoreFaults : DeleteBook(id, fault)

BookSpec == Init /\ [][BookNext]_vars


\* ======================================================== Review Service
\* src/review_service/routes.py, one step per request.
ReviewError(code, detail) ==
  [status |-> code, detail |-> detail, review |-> NoReview,
   body |-> NoSummaryBody]

\* ReviewBase.rating: confloat(ge=1.0, le=5.0), checked before the handler.
ValidRating(v) == v >= RatingMin /\ v <= RatingMax

\* select(...).where(Review.book_id == book_id)
ReviewsOf(rows, b) == {row \in rows : row.book_id = b}

RECURSIVE SumRatings(_)
SumRatings(rows) ==
  IF rows = {} THEN 0
  ELSE LET row == CHOOSE x \in rows : TRUE
       IN  row.rating + SumRatings(rows \ {row})

RECURSIVE GCD(_, _)
GCD(a, b) == IF b = 0 THEN a ELSE GCD(b, a % b)

\* Mutant of AverageRating: integer division.
AverageRatingFloor(rows) ==
  IF rows = {} THEN NullAverage
  ELSE [num |-> SumRatings(rows) \div Cardinality(rows), den |-> 1]

\* func.avg(Review.rating): the sum of the ratings divided by their number,
\* NULL over no rows.
AverageRating(rows) ==
  IF rows = {} THEN NullAverage
  ELSE LET n == SumRatings(rows)
           d == Cardinality(rows)
       IN  [num |-> n \div GCD(n, d), den |-> d \div GCD(n, d)]

\* Mutant of NoReviews: the guard is missing.
NoReviewsNever(total) == FALSE

\* `if not summary_data or not summary_data.total_reviews`
NoReviews(total) == total = 0

\* result.scalars().all(), rows taken in id order.
RECURSIVE InIdOrder(_)
InIdOrder(rows) ==
  IF rows = {} THEN <<>>
  ELSE LET first == CHOOSE x \in rows : \A y \in rows : x.id <= y.id
       IN  <<first>> \o InIdOrder(rows \ {first})

\* " ".join(texts)
RECURSIVE Join(_)
Join(texts) ==
  IF texts = <<>> THEN ""
  ELSE IF Len(texts) = 1 THEN texts[1]
  ELSE texts[1] \o " " \o Join(Tail(texts))

\* [r.comment for r in reviews if r.comment]
CommentsOf(rowseq) ==
  LET kept == SelectSeq(rowseq, LAMBDA row : Truthy(row.comment))
  IN  [i \in 1..Len(kept) |-> kept[i].comment]

\* The summary get_book_reviews_summary returns: the comments joined with a
\* blank, cut to SummaryLimit characters plus "..." when longer.
LocalSummary(rows) ==
  LET all_comments == Join(CommentsOf(InIdOrder(rows)))
  IN  IF Len(all_comments) > SummaryLimit
        THEN SubSeq(all_comments, 1, SummaryLimit) \o "..."
        ELSE all_comments

\* generate_book_reviews_summary (utils/review.py): one POST of the formatted
\* reviews to the llama3 service's generate-review-summary; a 200 yields
\* response.json()["summary"], everything else raises.  No handler of
\* routes.py calls it.
GenerateBookReviewsSummary(rows, reply, text) ==
  IF rows = {}
    THEN [ok |-> TRUE, summary |-> "No reviews available for this book.",
          calls |-> 0]
    ELSE IF reply = "200"
      THEN [ok |-> TRUE, summary |-> text, calls |-> 1]
      ELSE [ok |-> FALSE, summary |-> NullText, calls |-> 1]

\* create_review: INSERT and commit; for a non-empty comment one call of
\* generate_review_summary whose result is dropped and whose failure is
\* caught; log_action; return.  A payload with a rating out of range is
\* answered 422 before the handler runs.
CreateReviewOutcome(rows, seq, b, u, rating, comment, fault) ==
  IF ~ValidRating(rating)
    THEN [reviews |-> rows, seq |-> seq, gen_calls |-> 0,
          resp |-> ReviewError(422, "validation_error"), logs |-> 0]
    ELSE IF fault = "commit"
      THEN [reviews |-> rows, seq |-> seq, gen_calls |-> 0,
            resp |-> ReviewError(500, "error_creating_review"), logs |-> 1]
      ELSE LET row == [id |-> seq, book_id |-> b, user_id |-> u,
                       rating |-> rating, comment |-> comment]
           IN  [reviews |-> rows \cup {row}, seq |-> seq + 1,
                gen_calls |-> IF Truthy(comment) THEN 1 ELSE 0,
                resp |-> [status |-> 200, detail |-> "ok", review |-> row,
                          body |-> NoSummaryBody],
                logs |-> 1]

\* get_book_reviews_summary: the aggregate SELECT (avg, count), 404 after
\* log_action without a review, then the SELECT of the reviews and the
\* response built from their comments.  float(None) raises when the
\* aggregate is NULL.  The success path calls neither the llama3 service
\* nor log_action.
ReviewsSummaryOutcome(rows, b, fault) ==
  IF fault = "select"
    THEN [resp |-> ReviewError(500, "error_getting_reviews_summary"),
          gen_calls |-> 0, logs |-> 1]
    ELSE LET mine == ReviewsOf(rows, b)
             total == Cardinality(mine)
         IN  IF NoReviews(total)
               THEN [resp |-> ReviewError(404, "no_reviews_found"),
                     gen_calls |-> 0, logs |-> 1]
               ELSE IF AverageRating(mine) = NullAverage
                 THEN [resp |-> ReviewError(500, "error_getting_reviews_summary"),
                       gen_calls |-> 0, logs |-> 1]
                 ELSE [resp |-> [status |-> 200, detail |-> "ok",
                                 review |-> NoReview,
                                 body |-> [book_id |-> b,
                                           summary |-> LocalSummary(mine),
                                           average_rating |-> AverageRating(mine),
                                           total_reviews |-> total]],
                       gen_calls |-> 0, logs |-> 0]

\* POST /reviews?book_id=b
CreateReview(b, u, rating, comment, fault) ==
  /\ reviewSeq \in ReviewIds
  /\ LET out == CreateReviewOutcome(reviews, reviewSeq, b, u, rating, comment,
                                    fault)
     IN  /\ reviews' = out.reviews
         /\ reviewSeq' = out.seq
         /\ rcall' = [op |-> "create_review", review_id |-> 0, book_id |-> b,
                      user_id |-> u,
                      rating |-> rating, comment |-> comment, fault |-> fault,
                      llama |-> "none", llama_text |-> "none",
                      gen_calls |-> out.gen_calls, resp |-> out.resp,
                      logs |-> out.logs]
  /\ UNCHANGED <<llamaVars, bookVars, recVars, auditVars>>

\* GET /books/{book_id}/reviews/summary, while the llama3 service would answer
\* a summarization call with `llama` (and the text llama_text).
GetBookReviewsSummary(b, u, fault, llama, text) ==
  /\ LET out == ReviewsSummaryOutcome(reviews, b, fault)
     IN  rcall' = [op |-> "get_book_reviews_summary", review_id |-> 0,
                   book_id |-> b,
                   user_id |-> u, rating |-> 0, comment |-> NullText,
                   fault |-> fault, llama |-> llama, llama_text |-> text,
                   gen_calls |-> out.gen_calls, resp |-> out.resp,
                   logs |-> out.logs]
  /\ UNCHANGED <<reviews, reviewSeq, llamaVars, bookVars, recVars, auditVars>>

ReviewNext ==
  \/ \E b \in ReviewBooks, u \in Reviewers, rating \in RatingInputs,
        comment \in Comments, fault \in {"none", "commit"} :
        CreateReview(b, u, rating, comment, fault)
  \/ \E b \in ReviewBooks, u \in Reviewers, fault \in {"none", "select"} :
        \E g \in GenerationInputs("reviews") :
          GetBookReviewsSummary(b, u, fault, g.reply, g.text)

ReviewSpec == Init /\ [][ReviewNext]_vars

\* ------------------------------------------- update_review, delete_review
\* The two handlers that change or remove a stored review, with reviews of
\* two users in the table.

OwnerReviewIds == {1, 2}

OwnsAny(row, u) == TRUE

\* `if db_review.user_id != user_id` fails: the requester wrote the review.
Owns(row, u) == row.user_id = u

\* select(Review).where(Review.id == review_id)
ReviewById(rows, id) == {row \in rows : row.id = id}

\* update_review: SELECT by id, 404 without a row, 403 for a row of another
\* user, then setattr of the payload's fields (rating, comment), for a
\* non-empty comment one call of generate_review_summary whose result is
\* dropped, and the commit.  log_action precedes every response.
UpdateReviewOutcome(rows, id, u, rating, comment, fault) ==
  IF ~ValidRating(rating)
    THEN [reviews |-> rows, gen_calls |-> 0,
          resp |-> ReviewError(422, "validation_error"), logs |-> 0]
  ELSE IF fault = "select"
    THEN [reviews |-> rows, gen_calls |-> 0,
          resp |-> ReviewError(500, "error_updating_review"), logs |-> 1]
  ELSE IF ReviewById(rows, id) = {}
    THEN [reviews |-> rows, gen_calls |-> 0,
          resp |-> ReviewError(404, "review_not_found"), logs |-> 1]
  ELSE LET loaded == CHOOSE row \in ReviewById(rows, id) : TRUE
           row == [loaded EXCEPT !.rating = rating, !.comment = comment]
           calls == IF Truthy(comment) THEN 1 ELSE 0
       IN  IF ~Owns(loaded, u)
             THEN [reviews |-> rows, gen_calls |-> 0,
                   resp |-> ReviewError(403, "not_authorized"), logs |-> 1]
           ELSE IF fault = "commit"
             THEN [reviews |-> rows, gen_calls |-> calls,
                   resp |-> ReviewError(500, "error_updating_review"),
                   logs |-> 1]
             ELSE [reviews |-> (rows \ {loaded}) \cup {row},
                   gen_calls |-> calls,
                   resp |-> [status |-> 200, detail |-> "ok", review |-> row,
                             body |-> NoSummaryBody],
                   logs |-> 1]

\* delete_review: SELECT by id, 404, 403, then DELETE and commit.
DeleteReviewOutcome(rows, id, u, fault) ==
  IF fault = "select"
    THEN [reviews |-> rows,
          resp |-> ReviewError(500, "error_deleting_review"), logs |-> 1]
  ELSE IF ReviewById(rows, id) = {}
    THEN [reviews |-> rows, resp |-> ReviewError(404, "review_not_found"),
          logs |-> 1]
  ELSE LET loaded == CHOOSE row \in ReviewById(rows, id) : TRUE
       IN  IF ~Owns(loaded, u)
             THEN [reviews |-> rows,
                   resp |-> ReviewError(403, "not_authorized"), logs |-> 1]
           ELSE IF fault = "commit"
             THEN [reviews |-> rows,
                   resp |-> ReviewError(500, "error_deleting_review"),
                   logs |-> 1]
             ELSE [reviews |-> rows \ {loaded},
                   resp |-> [status |-> 200, detail |-> "deleted",
                             review |-> NoReview, body |-> NoSummaryBody],
                   logs |-> 1]

\* PUT /reviews/{review_id}
UpdateReview(id, u, rating, comment, fault) ==
  /\ LET out == UpdateReviewOutcome(reviews, id, u, rating, comment, fault)
     IN  /\ reviews' = out.reviews
         /\ rcall' = [NoReviewCall EXCEPT !.op = "update_review",
                                          !.review_id = id, !.user_id = u,
                                          !.rating = rating,
                                          !.comment = comment,
                                          !.fault = fault,
                                          !.gen_calls = out.gen_calls,
                                          !.resp = out.resp,
                                          !.logs = out.logs]
  /\ UNCHANGED <<reviewSeq, llamaVars, bookVars, recVars, auditVars>>

\* DELETE /reviews/{review_id}
DeleteReview(id, u, fault) ==
  /\ LET out == DeleteReviewOutcome(reviews, id, u, fault)
     IN  /\ reviews' = out.reviews
         /\ rcall' = [NoReviewCall EXCEPT !.op = "delete_review",
                                          !.review_id = id, !.user_id = u,
                                          !.fault = fault,
                                          !.resp = out.resp,
                                          !.logs = out.logs]
  /\ UNCHANGED <<reviewSeq, llamaVars, bookVars, recVars, auditVars>>

OwnerNext ==
  \/ \E u \in Users, rating \in RatingInputs \ {0} :
        reviewSeq \in OwnerReviewIds /\ CreateReview(1, u, rating, NullText, "none")
  \/ \E id \in ReviewIds, u \in Users, rating \in RatingInputs,
        comment \in Comments, fault \in StoreFaults :
        UpdateReview(id, u, rating, comment, fault)
  \/ \E id \in ReviewIds, u \in Users, fault \in StoreFaults :
        DeleteReview(id, u, fault)

OwnerSpec == Init /\ [][OwnerNext]_vars

\* ================================================ Recommendation Service
\* One action per handler of recommendation_service/routes.py.  `prefs` is the
\* preferences table in insertion (id) order; `pcall` records the last
\* request, the genre queries it sent to the Catalog Service and its response.
\* The `credentials` dependency of get_recommendations is taken to be the
\* HTTP Basic scheme of utils/auth.py, as for verify_auth.

RecError(code, detail) ==
  [status |-> code, detail |-> detail, items |-> <<>>, pref |-> NoPref,
   prefs |-> <<>>]

Range(seq) == {seq[i] : i \in 1..Len(seq)}

\* select(Preference).where(Preference.user_id == user_id)
PreferencesOf(rows, u) == SelectSeq(rows, LAMBDA p : p.user_id = u)

RECURSIVE GenresOf(_)
GenresOf(rows) ==
  IF rows = <<>> THEN <<>>
  ELSE <<Head(rows).genre>> \o GenresOf(Tail(rows))

\* get_books_by_genre: 200 gives the list, 401 is raised as 401, any other
\* status as 500, a transport failure as 503.
GetBooksByGenre(answer) ==
  CASE answer.status = "200" ->
         [ok |-> TRUE, books |-> answer.books, status |-> 200,
          detail |-> "ok"]
    [] answer.status = "401" ->
         [ok |-> FALSE, books |-> <<>>, status |-> 401,
          detail |-> "authentication_failed_with_book_service"]
    [] answer.status = "unreachable" ->
         [ok |-> FALSE, books |-> <<>>, status |-> 503,
          detail |-> "book_service_is_unavailable"]
    [] OTHER ->
         [ok |-> FALSE, books |-> <<>>, status |-> 500,
          detail |-> "error_communicating_with_book_service"]

AppendUnseenAll(recs, found) == recs \o found

RECURSIVE AppendUnseenFront(_, _)
AppendUnseenFront(recs, found) ==
  IF found = <<>> THEN recs
  ELSE AppendUnseenFront(IF Head(found) \in Range(recs)
                           THEN recs ELSE <<Head(found)>> \o recs,
                         Tail(found))

\* for book in books: if book["id"] not in seen_books: add and append.
RECURSIVE AppendUnseen(_, _)
AppendUnseen(recs, found) ==
  IF found = <<>> THEN recs
  ELSE AppendUnseen(IF Head(found) \in Range(recs)
                      THEN recs ELSE Append(recs, Head(found)),
                    Tail(found))

RECURSIVE FanOutReturnsPartial(_, _, _, _)
FanOutReturnsPartial(genres, answers, recs, queries) ==
  IF genres = <<>>
    THEN [ok |-> TRUE, items |-> recs, queries |-> queries, status |-> 200,
          detail |-> "ok"]
    ELSE LET got == GetBooksByGenre(Head(answers))
             asked == Append(queries, Head(genres))
         IN  IF ~got.ok
               THEN [ok |-> TRUE, items |-> recs, queries |-> asked,
                     status |-> 200, detail |-> "ok"]
               ELSE FanOutReturnsPartial(Tail(genres), Tail(answers),
                                         AppendUnseen(recs, got.books), asked)

\* for preference in preferences: one query per preference, in order; the
\* exception of a failing query leaves the loop.  `items` is what had been
\* collected when the loop ended, `queries` the genres asked for.
RECURSIVE FanOut(_, _, _, _)
FanOut(genres, answers, recs, queries) ==
  IF genres = <<>>
    THEN [ok |-> TRUE, items |-> recs, queries |-> queries, status |-> 200,
          detail |-> "ok"]
    ELSE LET got == GetBooksByGenre(Head(answers))
             asked == Append(queries, Head(genres))
         IN  IF ~got.ok
               THEN [ok |-> FALSE, items |-> recs, queries |-> asked,
                     status |-> got.status, detail |-> got.detail]
               ELSE FanOut(Tail(genres), Tail(answers),
                           AppendUnseen(recs, got.books), asked)

NoPreferencesNever(mine) == FALSE

\* if not preferences
NoPreferences(mine) == mine = <<>>

\* create_preference: an empty genre is rejected by PreferenceCreate before
\* the handler runs; a store failure is answered 500 after log_action.
CreatePreferenceOutcome(rows, u, genre, fault) ==
  IF genre = ""
    THEN [prefs |-> rows, resp |-> RecError(422, "validation_error"),
          logs |-> 0]
    ELSE IF fault = "commit"
      THEN [prefs |-> rows,
            resp |-> RecError(500, "error_creating_preference"), logs |-> 1]
      ELSE LET row == [id |-> Len(rows) + 1, user_id |-> u, genre |-> genre]
           IN  [prefs |-> Append(rows, row),
                resp |-> [status |-> 200, detail |-> "ok", items |-> <<>>,
                          pref |-> row, prefs |-> <<>>],
                logs |-> 1]

\* get_preferences
GetPreferencesOutcome(rows, u, fault) ==
  IF fault = "select"
    THEN [resp |-> RecError(500, "error_retrieving_preferences"), logs |-> 1]
    ELSE [resp |-> [status |-> 200, detail |-> "ok", items |-> <<>>,
                    pref |-> NoPref, prefs |-> PreferencesOf(rows, u)],
          logs |-> 1]

\* get_recommendations: every path calls log_action once; an HTTPException
\* (404, or the one raised by get_books_by_genre) is logged and re-raised.
GetRecommendationsOutcome(rows, u, fault, answers) ==
  IF fault = "select"
    THEN [resp |-> RecError(500, "error_getting_recommendations"),
          queries |-> <<>>, logs |-> 1]
    ELSE LET mine == PreferencesOf(rows, u)
         IN  IF NoPreferences(mine)
               THEN [resp |-> RecError(404, "no_preferences_found_for_user"),
                     queries |-> <<>>, logs |-> 1]
               ELSE LET fan == FanOut(GenresOf(mine), answers, <<>>, <<>>)
                    IN  IF fan.ok
                          THEN [resp |-> [status |-> 200, detail |-> "ok",
                                          items |-> fan.items,
                                          pref |-> NoPref, prefs |-> <<>>],
                                queries |-> fan.queries, logs |-> 1]
                          ELSE [resp |-> RecError(fan.status, fan.detail),
                                queries |-> fan.queries, logs |-> 1]

\* POST /preferences
CreatePreference(u, genre, fault) ==
  /\ Len(prefs) + 1 \in PrefIds
  /\ LET out == CreatePreferenceOutcome(prefs, u, genre, fault)
     IN  /\ prefs' = out.prefs
         /\ pcall' = [op |-> "create_preference", user_id |-> u,
                      genre |-> genre, fault |-> fault, answers |-> <<>>,
                      queries |-> <<>>, resp |-> out.resp, logs |-> out.logs]
  /\ UNCHANGED <<llamaVars, bookVars, reviewVars, auditVars>>

\* GET /preferences
GetPreferences(u, fault) ==
  /\ LET out == GetPreferencesOutcome(prefs, u, fault)
     IN  pcall' = [op |-> "get_preferences", user_id |-> u, genre |-> "",
                   fault |-> fault, answers |-> <<>>, queries |-> <<>>,
                   resp |-> out.resp, logs |-> out.logs]
  /\ UNCHANGED <<prefs, llamaVars, bookVars, reviewVars, auditVars>>

\* GET /recommendations, where the Catalog Service answers the i-th genre
\* query of this request with answers[i].
GetRecommendations(u, fault, answers) ==
  /\ LET out == GetRecommendationsOutcome(prefs, u, fault, answers)
     IN  pcall' = [op |-> "get_recommendations", user_id |-> u, genre |-> "",
                   fault |-> fault, answers |-> answers,
                   queries |-> out.queries, resp |-> out.resp,
                   logs |-> out.logs]
  /\ UNCHANGED <<prefs, llamaVars, bookVars, reviewVars, auditVars>>

RecNext ==
  \/ \E u \in Users, genre \in GenreInputs, fault \in {"none", "commit"} :
        CreatePreference(u, genre, fault)
  \/ \E u \in Users, fault \in {"none", "select"} : GetPreferences(u, fault)
  \/ \E u \in Users, fault \in {"none", "select"} :
        \E answers \in AnswerSeqs(IF fault = "select" THEN 0
                                   ELSE Len(PreferencesOf(prefs, u))) :
          GetRecommendations(u, fault, answers)

RecSpec == Init /\ [][RecNext]_vars

\* ============================================================ log_action
\* log_action of the llama3 service (utils/logging.py) and of the book
\* service (logging_utils.py), one call at a time, step by step.  `logc` is
\* the call in progress with the response its caller has prepared; `audit`
\* is the set of entries the shared service has accepted.

CatchReraises(c) == [c EXCEPT !.pc = "raised", !.errors = @ + 1]

\* except Exception as e: logger.error(...): the call ends normally.
Catch(c) == [c EXCEPT !.pc = "returned", !.errors = @ + 1]

\* A handler that has prepared the response `pending` calls log_action.
CallLogAction(m, u, st, pending) ==
  /\ logc.pc \in {"idle", "responded"}
  /\ logc' = [IdleLog EXCEPT !.pc = "entered", !.module = m, !.user_id = u,
                             !.status = st, !.pending = pending]
  /\ UNCHANGED <<audit, acall, llamaVars, bookVars, reviewVars, recVars>>

\* book service: insert(Log) names a class the module does not bind; the
\* NameError is caught by the outer handler before anything is executed on
\* the session and before the POST.
LogInsert ==
  /\ logc.pc = "entered" /\ logc.module = "book_service"
  /\ logc' = Catch(logc)
  /\ UNCHANGED <<audit, acall, llamaVars, bookVars, reviewVars, recVars>>

\* llama3 service: logger.info(log_message)
LogLocal ==
  /\ logc.pc = "entered" /\ logc.module = "llama3_service"
  /\ logc' = [logc EXCEPT !.pc = "post"]
  /\ UNCHANGED <<audit, acall, llamaVars, bookVars, reviewVars, recVars>>

\* llama3 service: the POST to the shared service.  200 stores the entry, any
\* other status is logged locally, a transport failure is an exception.
LogPost(reply) ==
  /\ logc.pc = "post"
  /\ LET sent == [logc EXCEPT !.posts = @ + 1, !.sink = reply]
     IN  CASE reply = "200" ->
                /\ logc' = [sent EXCEPT !.pc = "returned"]
                /\ audit' = audit \cup {[module |-> logc.module,
                                          user_id |-> logc.user_id,
                                          status |-> logc.status]}
           [] reply = "non200" ->
                /\ logc' = [sent EXCEPT !.pc = "returned", !.errors = @ + 1]
                /\ UNCHANGED audit
           [] OTHER ->
                /\ logc' = Catch(sent)
                /\ UNCHANGED audit
  /\ UNCHANGED <<acall, llamaVars, bookVars, reviewVars, recVars>>

\* The caller goes on after `await log_action(...)`: it sends the response it
\* had prepared; an exception out of log_action would reach the handler's
\* `except Exception` and be answered 500.
LogReturn ==
  /\ logc.pc \in {"returned", "raised"}
  /\ logc' = [logc EXCEPT !.pc = "responded",
                          !.response = IF logc.pc = "raised" THEN 500
                                       ELSE logc.pending]
  /\ UNCHANGED <<audit, acall, llamaVars, bookVars, reviewVars, recVars>>

AuditNext ==
  \/ \E m \in LogModules, u \in Users, st \in LogStatuses,
        pending \in PendingResponses : CallLogAction(m, u, st, pending)
  \/ LogInsert
  \/ LogLocal
  \/ \E reply \in SinkReplies : LogPost(reply)
  \/ LogReturn

AuditSpec == Init /\ [][AuditNext]_vars

\* ==================================================== Credential Verifier
\* verify_auth of the book and recommendation services in front of their
\* handlers, and the login endpoint of the shared service it forwards the
\* HTTP Basic credentials to.  A dependency that raises ends the request:
\* the handler is not invoked.

\* verify_credentials: the user by username, then the password comparison.
VerifyCredentials(users, username, password) ==
  LET found == {usr \in users : usr.username = username}
  IN  IF found = {}
        THEN [status |-> 401, user_id |-> 0]
        ELSE LET user == CHOOSE usr \in found : TRUE
             IN  IF user.password # password
                   THEN [status |-> 401, user_id |-> 0]
                   ELSE [status |-> 200, user_id |-> user.id]

\* POST /auth/login as its caller sees it: the HTTPException of
\* verify_credentials is re-raised, any other exception is answered 500, and
\* `reached` is FALSE when the request fails in transport.
Login(users, username, password, fault) ==
  CASE fault = "unreachable" -> [reached |-> FALSE, status |-> 0, user_id |-> 0]
    [] fault = "store" -> [reached |-> TRUE, status |-> 500, user_id |-> 0]
    [] OTHER ->
         [reached |-> TRUE,
          status |-> VerifyCredentials(users, username, password).status,
          user_id |-> VerifyCredentials(users, username, password).user_id]

VerifyAuthTrusting(service, reply) ==
  [ok |-> TRUE, user_id |-> reply.user_id, status |-> 200]

\* verify_auth: 200 gives response.json()["user_id"], any other status is
\* raised as 401.  A transport failure is raised as 503 by the
\* recommendation service; the book service does not catch it, and the
\* request ends with the framework's 500.
VerifyAuth(service, reply) ==
  IF ~reply.reached
    THEN [ok |-> FALSE, user_id |-> 0,
          status |-> IF service = "recommendation_service" THEN 503 ELSE 500]
    ELSE IF reply.status = 200
      THEN [ok |-> TRUE, user_id |-> reply.user_id, status |-> 200]
      ELSE [ok |-> FALSE, user_id |-> 0, status |-> 401]

AuthCall(service, op, username, password, fault, verdict, status) ==
  [service |-> service, op |-> op, username |-> username,
   password |-> password, fault |-> fault, status |-> status,
   user_id |-> verdict.user_id, ran |-> verdict.ok]

\* POST /preferences behind verify_auth.
ProtectedCreatePreference(username, password, fault, genre) ==
  /\ Len(prefs) + 1 \in PrefIds
  /\ LET verdict == VerifyAuth("recommendation_service",
                               Login(UserTable, username, password, fault))
         out == CreatePreferenceOutcome(prefs, verdict.user_id, genre, "none")
     IN  IF verdict.ok
           THEN /\ prefs' = out.prefs
                /\ pcall' = [NoRecCall EXCEPT !.op = "create_preference",
                                              !.user_id = verdict.user_id,
                                              !.genre = genre,
                                              !.resp = out.resp,
                                              !.logs = out.logs]
                /\ acall' = AuthCall("recommendation_service",
                                     "create_preference", username, password,
                                     fault, verdict, out.resp.status)
           ELSE /\ acall' = AuthCall("recommendation_service",
                                     "create_preference", username, password,
                                     fault, verdict, verdict.status)
                /\ UNCHANGED recVars
  /\ UNCHANGED <<logc, audit, llamaVars, bookVars, reviewVars>>

\* GET /recommendations behind verify_auth.
ProtectedGetRecommendations(username, password, fault, answers) ==
  /\ LET verdict == VerifyAuth("recommendation_service",
                               Login(UserTable, username, password, fault))
         out == GetRecommendationsOutcome(prefs, verdict.user_id, "none",
                                          answers)
     IN  IF verdict.ok
           THEN /\ pcall' = [NoRecCall EXCEPT !.op = "get_recommendations",
                                              !.user_id = verdict.user_id,
                                              !.answers = answers,
                                              !.queries = out.queries,
                                              !.resp = out.resp,
                                              !.logs = out.logs]
                /\ acall' = AuthCall("recommendation_service",
                                     "get_recommendations", username,
                                     password, fault, verdict,
                                     out.resp.status)
           ELSE /\ acall' = AuthCall("recommendation_service",
                                     "get_recommendations", username,
                                     password, fault, verdict, verdict.status)
                /\ UNCHANGED pcall
  /\ UNCHANGED <<prefs, logc, audit, llamaVars, bookVars, reviewVars>>

\* GET /books/{book_id} behind verify_auth.
ProtectedGetBook(username, password, fault, id) ==
  /\ LET verdict == VerifyAuth("book_service",
                               Login(UserTable, username, password, fault))
         out == GetBookOutcome(books, id, "none")
     IN  IF verdict.ok
           THEN /\ bcall' = [NoBookCall EXCEPT !.op = "get_book", !.id = id,
                                               !.resp = out.resp,
                                               !.logs = out.logs]
                /\ acall' = AuthCall("book_service", "get_book", username,
                                     password, fault, verdict,
                                     out.resp.status)
           ELSE /\ acall' = AuthCall("book_service", "get_book", username,
                                     password, fault, verdict, verdict.status)
                /\ UNCHANGED bcall
  /\ UNCHANGED <<books, bookSeq, logc, audit, llamaVars, reviewVars, recVars>>

\* The Catalog answers a genre query of an authenticated request.
AuthAnswers(n) == [1..n -> {[status |-> "200", books |-> <<7>>]}]

AuthNext ==
  \/ \E username \in Usernames, password \in Passwords, fault \in LoginFaults :
        ProtectedCreatePreference(username, password, fault, "Fiction")
  \/ \E username \in Usernames, password \in Passwords, fault \in LoginFaults :
        \E answers \in AuthAnswers(
              Len(PreferencesOf(prefs,
                    VerifyAuth("recommendation_service",
                               Login(UserTable, username, password,
                                     fault)).user_id))) :
          ProtectedGetRecommendations(username, password, fault, answers)
  \/ \E username \in Usernames, password \in Passwords, fault \in LoginFaults,
        id \in BookIds : ProtectedGetBook(username, password, fault, id)

AuthSpec == Init /\ [][AuthNext]_vars

\* ============================================ Catalog -> llama3 pipeline
\* create_book and update_book together with the generate-summary request
\* they await: generate_book_summary posts {book_id, content} with the
\* caller's credentials, the llama3 service looks the book up in the Catalog
\* and answers from its table or its backend.  One request at a time.

PipelineBooks == {1}
PipelinePayloads == [title : {"T1"}, summary : {"A", "B"}]

ForceRefreshAlways == TRUE

\* generate_book_summary sends no `refresh` parameter, and generate_summary
\* declares `refresh: bool = False`.
ForceRefreshSent == FALSE

\* GET /books/{book_id} as verify_book_exists of the llama3 service sees it.
CatalogAnswer(rows, id) ==
  IF GetBookOutcome(rows, id, "none").resp.status = 200 THEN "200" ELSE "404"

\* generate_summary run from its first statement to its response on the
\* current table, with the answers of the Catalog and of the backend.
GetOrCreateSummary(b, u, c, refresh, cat, backend, text) ==
  LET mine == Rows(b, u)
      found == IF mine = {} THEN NoRow ELSE CHOOSE x \in mine : TRUE
      same == [store |-> store, nextId |-> nextId, now |-> now]
  IN  IF ~ValidContent(c)
        THEN [at |-> same, resp |-> HTTPError(422, "validation_error"),
              calls |-> 0]
      ELSE IF VerifyBookExists(cat).status # 0
        THEN [at |-> same, resp |-> VerifyBookExists(cat), calls |-> 0]
      ELSE IF Cardinality(mine) > 1
        THEN [at |-> same, resp |-> InternalError, calls |-> 0]
      ELSE IF CacheHit(found, refresh)
        THEN [at |-> same, resp |-> CreateSummaryResponse(found), calls |-> 0]
      ELSE IF GenerateSummaryError(backend).status # 0
        THEN [at |-> same, resp |-> GenerateSummaryError(backend),
              calls |-> 1]
      ELSE IF found # NoRow
        THEN LET rows == FlushUpdate(store, found, c, text, now)
             IN  [at |-> [store |-> rows, nextId |-> nextId,
                          now |-> IF rows # store THEN now + 1 ELSE now],
                  resp |-> CreateSummaryResponse(
                             CHOOSE x \in rows : x.id = found.id),
                  calls |-> 1]
        ELSE LET row == NewRow(nextId, b, u, c, text, now)
             IN  [at |-> [store |-> FlushInsert(store, row, TRUE),
                          nextId |-> nextId + 1, now |-> now + 1],
                  resp |-> CreateSummaryResponse(row), calls |-> 1]

\* The response of generate-summary as generate_book_summary reads it.
LlamaReply(resp) ==
  CASE resp.status = 200 -> "200"
    [] resp.status = 401 -> "401"
    [] OTHER -> "other"

\* The llama3 request of user u for book b, as the call that returned last.
PipelineCall(b, u, call) ==
  [n |-> last.n + 1, op |-> "generate_summary", book_id |-> b, user_id |-> u,
   refresh |-> ForceRefreshSent, had |-> Rows(b, u) # {},
   calls |-> call.calls, resp |-> call.resp]

\* POST /books by user u with a summary text.
CreateBookWithSummary(u, book, backend, text) ==
  /\ bookSeq \in PipelineBooks
  /\ issued < MaxCalls
  /\ LET committed == books \cup {[id |-> bookSeq, title |-> book.title,
                                   summary |-> book.summary]}
         call == GetOrCreateSummary(bookSeq, u, book.summary,
                                    ForceRefreshSent,
                                    CatalogAnswer(committed, bookSeq),
                                    backend, text)
         out == CreateBookOutcome(books, bookSeq, book, "none",
                                  LlamaReply(call.resp), call.resp.row.summary)
     IN  /\ books' = out.books
         /\ bookSeq' = out.seq
         /\ bcall' = [op |-> "create_book", id |-> 0, book |-> book,
                      fault |-> "none", reply |-> out.reply, gen |-> out.gen,
                      gen_calls |-> out.gen_calls, gen_id |-> out.gen_id,
                      resp |-> out.resp, logs |-> out.logs]
         /\ store' = call.at.store
         /\ nextId' = call.at.nextId
         /\ now' = call.at.now
         /\ last' = PipelineCall(bookSeq, u, call)
  /\ issued' = issued + 1
  /\ UNCHANGED <<req, reviewVars, recVars, auditVars>>

\* PUT /books/{book_id} by user u with a summary text.
UpdateBookWithSummary(id, u, book, backend, text) ==
  /\ BookById(books, id) # {}
  /\ issued < MaxCalls
  /\ LET call == GetOrCreateSummary(id, u, book.summary, ForceRefreshSent,
                                    CatalogAnswer(books, id), backend, text)
         out == UpdateBookOutcome(books, id, book, "none",
                                  LlamaReply(call.resp), call.resp.row.summary)
     IN  /\ books' = out.books
         /\ bcall' = [op |-> "update_book", id |-> id, book |-> book,
                      fault |-> "none", reply |-> out.reply, gen |-> out.gen,
                      gen_calls |-> out.gen_calls, gen_id |-> out.gen_id,
                      resp |-> out.resp, logs |-> out.logs]
         /\ store' = call.at.store
         /\ nextId' = call.at.nextId
         /\ now' = call.at.now
         /\ last' = PipelineCall(id, u, call)
  /\ issued' = issued + 1
  /\ UNCHANGED <<bookSeq, req, reviewVars, recVars, auditVars>>

\* A backend text matters only with the reply that carries it.
BackendInputs ==
  [reply : {"ok"}, text : Texts]
    \cup [reply : BackendReplies \ {"ok"}, text : {"none"}]

PipelineNext ==
  \/ \E u \in Users, book \in PipelinePayloads, g \in BackendInputs :
        CreateBookWithSummary(u, book, g.reply, g.text)
  \/ \E id \in PipelineBooks, u \in Users, book \in PipelinePayloads,
        g \in BackendInputs : UpdateBookWithSummary(id, u, book, g.reply, g.text)

PipelineSpec == Init /\ [][PipelineNext]_vars

\* ================================================================ claims
Generate(r) == req[r].op = "generate_summary"
SamePair(x, y) == x.book_id = y.book_id /\ x.user_id = y.user_id
Stored(id) == CHOOSE row \in store : row.id = id

\* A step taken by the task in slot r (Return, which moves tasks between
\* slots, is the only action enabled while some task is done).
StepOf(r) == NoneDone /\ req'[r] # req[r]

\* The call that just finished in slot r directly follows the call recorded
\* in `last`, for the same pair, both without refresh, the first one having
\* started with no record for the pair.
Successive(r) ==
  /\ req[r].pc = "done" /\ Generate(r) /\ last.op = "generate_summary"
  /\ SamePair(req[r], last)
  /\ ~req[r].refresh /\ ~last.refresh /\ ~last.had
  /\ req[r].n0 = last.n

C2_CacheHitIsReadOnly ==
  [][\A r \in Reqs :
       (Generate(r) /\ req[r].had /\ ~req[r].refresh /\ StepOf(r)) =>
         /\ store' = store
         /\ req'[r].calls = 0
         /\ req'[r].pc \in {"idle", "done"}
         /\ req'[r].resp.status = 200 => req'[r].resp.row \in store']_vars

C2_Witness ==
  \E r \in Reqs :
    /\ Generate(r) /\ req[r].had /\ ~req[r].refresh /\ req[r].pc = "done"
    /\ req[r].resp.status = 200
    /\ req[r].content # req[r].resp.row.content
    /\ req[r].resp.row \in store

C4_OneRecordPerPair ==
  \A x, y \in store : (SamePair(x, y) \/ x.id = y.id) => x = y

\* A second INSERT for a pair has been rejected by the index.
C4_Witness ==
  \E r \in Reqs :
    /\ Generate(r) /\ req[r].pc = "done" /\ req[r].existing = NoRow
    /\ req[r].reply = "ok" /\ ~req[r].fault /\ req[r].resp = InternalError
    /\ Rows(req[r].book_id, req[r].user_id) # {}
\* The task in slot r missed the cache, got a summary from the backend and met
\* no store failure.
MissedAndGenerated(r) ==
  /\ Generate(r) /\ req[r].pc = "done"
  /\ req[r].existing = NoRow /\ req[r].reply = "ok" /\ ~req[r].fault

\* C5 as stated: every caller that missed the cache and got a summary from
\* the backend is answered 200 with the single record stored for the pair,
\* also when another caller's INSERT for the pair came first.
C5_Original ==
  \A r \in Reqs :
    MissedAndGenerated(r) =>
      /\ req[r].resp.status = 200
      /\ Cardinality(Rows(req[r].book_id, req[r].user_id)) = 1
      /\ req[r].resp.row.id \in {row.id : row \in Rows(req[r].book_id, req[r].user_id)}

\* C6: a generate_summary request with empty content ends at once with 422;
\* it never reaches the cache lookup, the backend or a commit.
C6_EmptyContentRejected ==
  \A r \in Reqs :
    (Generate(r) /\ req[r].content = "") =>
      /\ req[r].pc = "done"
      /\ req[r].resp = HTTPError(422, "validation_error")
      /\ req[r].calls = 0
      /\ ~req[r].wrote
      /\ req[r].existing = NoRow

C6_Witness ==
  \E r \in Reqs :
    /\ Generate(r) /\ req[r].content = "" /\ req[r].pc = "done"
    /\ req[r].resp.status = 422 /\ req[r].had

\* C7: an invocation calls the backend at most once; a failed attempt ends it
\* at once with an error response, and it has written nothing.
C7_SingleAttempt ==
  \A r \in Reqs :
    /\ req[r].calls <= 1
    /\ (Generate(r) /\ req[r].reply \notin {"none", "ok"}) =>
         /\ req[r].pc = "done"
         /\ req[r].calls = 1
         /\ req[r].resp.status \in {500, 503}
         /\ req[r].resp.row = NoRow
         /\ ~req[r].wrote

C7_Witness ==
  \E r \in Reqs :
    /\ Generate(r) /\ req[r].pc = "done" /\ req[r].reply = "unreachable"
    /\ req[r].resp.status = 503 /\ req[r].refresh
    /\ req[r].existing # NoRow /\ req[r].existing \in store

BackendFailures == BackendReplies \ {"ok"}

\* The class of a backend failure.
FailureClass(reply) ==
  CASE reply = "unreachable" -> "BackendUnreachable"
    [] reply = "status_401" -> "BackendAuthFailure"
    [] OTHER -> "BackendProtocolError"

\* C8 as stated: an unreachable backend yields 503, a rejection of credentials
\* an auth error, a non-success status or a missing output field 500, and
\* failures of different classes never yield the same outcome.
C8_Original ==
  \A r \in Reqs :
    (Generate(r) /\ req[r].pc = "done" /\ req[r].reply \in BackendFailures) =>
      /\ CASE FailureClass(req[r].reply) = "BackendUnreachable" ->
                req[r].resp.status = 503
           [] FailureClass(req[r].reply) = "BackendAuthFailure" ->
                req[r].resp.status \in {401, 403}
           [] OTHER -> req[r].resp.status = 500
      /\ \A y \in BackendFailures :
           FailureClass(y) # FailureClass(req[r].reply) =>
             GenerateSummaryError(y) # req[r].resp

\* C9 as stated, for a commit that fails on a store failure: when the commit
\* of the create path fails after the backend answered, no record for the
\* pair exists, and the response differs from every backend error.
C9_Original ==
  \A r \in Reqs :
    (Generate(r) /\ req[r].pc = "done" /\ req[r].existing = NoRow
     /\ req[r].reply = "ok" /\ req[r].fault /\ req[r].resp.status # 200) =>
      /\ Rows(req[r].book_id, req[r].user_id) = {}
      /\ \A b \in BackendFailures : req[r].resp # GenerateSummaryError(b)

\* C9 amended: a failed commit on the create path leaves the table exactly as
\* it was before the commit (a record for the pair exists afterwards only if
\* another request stored it), and the caller gets the handler's own 500,
\* which differs from every backend error outcome.
C9_FailedCommitAddsNothing ==
  [][\A r \in Reqs :
       (Generate(r) /\ StepOf(r) /\ req[r].pc = "commit"
        /\ req[r].existing = NoRow /\ req'[r].pc = "done") =>
         /\ store' = store
         /\ req'[r].resp.status = 500
         /\ req'[r].resp.row = NoRow
         /\ \A b \in BackendFailures :
              req'[r].resp # GenerateSummaryError(b)]_vars

C9_Witness ==
  \E r \in Reqs :
    /\ Generate(r) /\ req[r].pc = "done" /\ req[r].existing = NoRow
    /\ req[r].reply = "ok" /\ req[r].fault /\ req[r].resp = InternalError
    /\ Rows(req[r].book_id, req[r].user_id) = {}

\* C10: no step removes a record or changes a record's id, book_id, user_id
\* or created_at; a refresh rewrites the row it loaded.
C10_RecordsPersist ==
  [][\A x \in store :
       \E y \in store' :
         /\ y.id = x.id /\ SamePair(x, y)
         /\ y.created_at = x.created_at]_vars

\* A record has been refreshed in place and then read by get_summary.
C10_Witness ==
  \E r \in Reqs :
    /\ req[r].op = "get_summary" /\ req[r].pc = "done"
    /\ req[r].resp.status = 200
    /\ req[r].resp.row.updated_at > req[r].resp.row.created_at

\* C11: a failure of generate_book_summary, whatever it raises, does not fail
\* create_book or update_book: with the store accepting the book's commit,
\* the request is answered 200, the book is stored, and the summary field of
\* the stored book and of the response is the text the caller sent.
C11_SummaryFailureIsolated ==
  (/\ bcall.op \in {"create_book", "update_book"}
   /\ bcall.gen = "failed" /\ bcall.fault = "none") =>
    /\ bcall.resp.status = 200
    /\ bcall.resp.book.summary = bcall.book.summary
    /\ bcall.resp.book.title = bcall.book.title
    /\ bcall.resp.book \in books
    /\ bcall.logs = 1

\* update_book kept the caller's text although the llama3 service was down.
C11_Witness ==
  /\ bcall.op = "update_book" /\ bcall.gen = "failed"
  /\ bcall.reply = "unreachable" /\ bcall.resp.status = 200
  /\ bcall.resp.book.summary = "A" /\ bcall.resp.book \in books

\* The request handled last asked for the reviews summary of a book.
SummaryCall == rcall.op = "get_book_reviews_summary"

\* The Review Records stored for the book of the request handled last.
ReviewsOfCall == {row \in reviews : row.book_id = rcall.book_id}

\* C12 as stated: a reviews-summary request for a book with at least one
\* review, handled while a summarization call fails, is answered with an
\* error response and not with a success.
C12_Original ==
  (/\ SummaryCall /\ rcall.fault = "none"
   /\ ReviewsOfCall # {} /\ rcall.llama # "200") =>
    rcall.resp.status >= 400

\* C13 as stated: the summary field of a successful reviews-summary response
\* is the text the summarization workflow produced for the book's reviews.
C13_Original ==
  (SummaryCall /\ rcall.resp.status = 200 /\ rcall.llama = "200") =>
    /\ rcall.gen_calls = 1
    /\ rcall.resp.body.summary =
         GenerateBookReviewsSummary(ReviewsOfCall, rcall.llama,
                                    rcall.llama_text).summary

\* C14: a reviews-summary request for a book without any Review Record is
\* answered 404 (the store answering its SELECT); it makes no summarization
\* call and leaves the reviews table as it was.
C14_NoReviewsNotFound ==
  [][(/\ rcall'.op = "get_book_reviews_summary" /\ rcall'.fault = "none"
      /\ {row \in reviews : row.book_id = rcall'.book_id} = {}) =>
       /\ rcall'.resp.status = 404
       /\ rcall'.resp.body = NoSummaryBody
       /\ rcall'.gen_calls = 0
       /\ reviews' = reviews /\ reviewSeq' = reviewSeq]_vars

\* The book has no review while another book has some.
C14_Witness ==
  /\ SummaryCall /\ rcall.resp.status = 404 /\ rcall.llama = "200"
  /\ ReviewsOfCall = {} /\ reviews # {}

\* C15: in a successful reviews-summary response total_reviews is the number
\* of Review Records stored for the book, and average_rating times
\* total_reviews is the sum of exactly those records' ratings.
C15_CountAndMean ==
  (SummaryCall /\ rcall.resp.status = 200) =>
    LET body == rcall.resp.body
    IN  /\ body.book_id = rcall.book_id
        /\ body.total_reviews = Cardinality(ReviewsOfCall)
        /\ body.total_reviews >= 1
        /\ body.average_rating.den >= 1
        /\ body.average_rating.num * body.total_reviews =
             SumRatings(ReviewsOfCall) * body.average_rating.den

\* Two reviews rated 2 and 5 for the book, a third one for another book.
C15_Witness ==
  /\ SummaryCall /\ rcall.resp.status = 200
  /\ rcall.resp.body.total_reviews = 2
  /\ rcall.resp.body.average_rating = [num |-> 7, den |-> 2]
  /\ Cardinality(reviews) = 3

RecommendationsCall == pcall.op = "get_recommendations"
OwnPreferences == {i \in 1..Len(prefs) : prefs[i].user_id = pcall.user_id}

\* C16: a successful get_recommendations returns each book id at most once,
\* and the ids it returns are exactly the ids that the per-genre queries of
\* the request returned, one query per stored preference of the user.
C16_DeduplicatedUnion ==
  (RecommendationsCall /\ pcall.resp.status = 200) =>
    LET items == pcall.resp.items
        returned == UNION {{pcall.answers[k].books[m] :
                              m \in 1..Len(pcall.answers[k].books)} :
                            k \in 1..Len(pcall.answers)}
    IN  /\ \A i, j \in 1..Len(items) : items[i] = items[j] => i = j
        /\ {items[i] : i \in 1..Len(items)} = returned
        /\ Len(pcall.queries) = Cardinality(OwnPreferences)
        /\ Len(pcall.answers) = Len(pcall.queries)

C16_Witness ==
  /\ RecommendationsCall /\ pcall.resp.status = 200
  /\ pcall.queries = <<"Fiction", "SciFi">>
  /\ pcall.answers[1].books = <<7>> /\ pcall.answers[2].books = <<7, 8>>
  /\ pcall.resp.items = <<7, 8>>

\* C17: get_recommendations for a user without stored preferences is answered
\* 404 and sends no query to the Catalog Service.
C17_NoPreferencesNotFound ==
  (RecommendationsCall /\ pcall.fault = "none" /\ OwnPreferences = {}) =>
    /\ pcall.resp.status = 404
    /\ pcall.queries = <<>>
    /\ pcall.resp.items = <<>>

C17_Witness ==
  /\ RecommendationsCall /\ pcall.resp.status = 404
  /\ OwnPreferences = {} /\ Len(prefs) = 2 /\ pcall.queries = <<>>

\* C18: when a per-genre query of get_recommendations fails, the response is
\* the error of that query and carries no recommendations, and the failing
\* query is the last one the request sends.
C18_FailureAborts ==
  (/\ RecommendationsCall
   /\ \E k \in 1..Len(pcall.answers) : pcall.answers[k].status # "200") =>
    LET first == CHOOSE k \in 1..Len(pcall.answers) :
                   /\ pcall.answers[k].status # "200"
                   /\ \A j \in 1..(k - 1) : pcall.answers[j].status = "200"
    IN  /\ pcall.resp.status \in {401, 500, 503}
        /\ pcall.resp.status =
             (CASE pcall.answers[first].status = "401" -> 401
                [] pcall.answers[first].status = "unreachable" -> 503
                [] OTHER -> 500)
        /\ pcall.resp.items = <<>>
        /\ Len(pcall.queries) = first
        /\ pcall.logs = 1

C18_Witness ==
  /\ RecommendationsCall /\ pcall.resp.status = 503
  /\ Cardinality(OwnPreferences) = 3
  /\ Len(pcall.queries) = 2
  /\ pcall.answers[1] = [status |-> "200", books |-> <<7, 8>>]
  /\ pcall.answers[2].status = "unreachable"
  /\ pcall.resp.items = <<>>

\* C19: log_action never raises and forwards at most once: whatever the
\* shared service answers, the caller sends the response it had prepared,
\* and no step of log_action touches the services' stores.
C19_LogActionSwallows ==
  /\ logc.pc # "raised"
  /\ logc.posts <= 1
  /\ logc.pc = "responded" => logc.response = logc.pending
  /\ store = {} /\ books = {} /\ reviews = {} /\ prefs = <<>>

C19_Witness ==
  /\ logc.pc = "responded" /\ logc.module = "llama3_service"
  /\ logc.sink = "unreachable" /\ logc.posts = 1 /\ logc.errors = 1
  /\ logc.pending = 200 /\ logc.response = 200
  /\ audit # {}

\* C20: every request that reaches its handler has called log_action by the
\* time its response is ready, whatever the outcome (a body rejected by
\* validation never reaches the handler).
C20_Original ==
  \A r \in Reqs :
    (req[r].pc = "done" /\ req[r].resp.status # 422) => req[r].logs >= 1

\* C21: a protected request whose credentials the login endpoint rejects is
\* answered 401 and its handler is not invoked: no table, no recorded
\* handler call and no Catalog query changes.  A request whose handler runs
\* was accepted, and the handler runs with the id of the user that owns the
\* credentials.
C21_RejectedRunsNothing ==
  [][LET a == acall'
         owners == {usr \in UserTable :
                      usr.username = a.username /\ usr.password = a.password}
     IN  /\ (a.fault = "none" /\ owners = {}) =>
               /\ a.status = 401 /\ ~a.ran
               /\ UNCHANGED <<prefs, pcall, books, bookSeq, bcall, store,
                              reviews, reviewSeq, rcall, audit>>
         /\ a.ran =>
               /\ a.fault = "none"
               /\ \E usr \in owners : a.user_id = usr.id
               /\ a.service = "recommendation_service" =>
                     (pcall'.op = a.op /\ pcall'.user_id = a.user_id)
               /\ a.op = "create_preference" =>
                     (/\ Len(prefs') = Len(prefs) + 1
                      /\ prefs'[Len(prefs')].user_id = a.user_id)
               /\ a.service = "book_service" => bcall'.op = a.op
    ]_vars

C21_Witness ==
  /\ acall.op = "get_recommendations"
  /\ acall.username = "alice" /\ acall.password = "pw2"
  /\ acall.fault = "none" /\ acall.status = 401 /\ ~acall.ran
  /\ pcall.op = "create_preference" /\ pcall.user_id = 1
  /\ Len(prefs) = 2

\* C22: a 200 response of generate_summary or get_summary carries a record of
\* the requesting user for the requested book; get_summary answers 404 when
\* the requester has no record for the book, whoever else has one; and a
\* step changes records of one user only, on behalf of a request of that
\* user.
C22_ScopedPerRequester ==
  [][/\ \A r \in Reqs :
          (req'[r].pc = "done" /\ req'[r].resp.status = 200) =>
            /\ req'[r].resp.row.user_id = req'[r].user_id
            /\ req'[r].resp.row.book_id = req'[r].book_id
     /\ \A r \in Reqs :
          (/\ req[r].pc = "idle" /\ req'[r].op = "get_summary"
           /\ req'[r].pc = "done"
           /\ ~\E row \in store : /\ row.book_id = req'[r].book_id
                                   /\ row.user_id = req'[r].user_id) =>
            req'[r].resp.status = 404
     /\ store' # store =>
          \E r \in Reqs :
            /\ req[r].pc = "commit"
            /\ {row \in store' : row.user_id # req[r].user_id}
                 = {row \in store : row.user_id # req[r].user_id}
    ]_vars

C22_Witness ==
  \E r \in Reqs :
    /\ req[r].op = "get_summary" /\ req[r].pc = "done"
    /\ req[r].resp.status = 404
    /\ \E row \in store : /\ row.book_id = req[r].book_id
                           /\ row.user_id # req[r].user_id

\* Position (k, m) of the book list of the k-th answer comes before (k2, m2)
\* in the concatenation of the answers.
Before(k, m, k2, m2) == k < k2 \/ (k = k2 /\ m < m2)
Occurrences(id) ==
  {<<k, m>> \in (1..Len(pcall.answers)) \X (1..2) :
     /\ m <= Len(pcall.answers[k].books)
     /\ pcall.answers[k].books[m] = id}

\* C23: the list of a successful get_recommendations is the concatenation of
\* the per-preference answers, in preference order, without the later
\* occurrences of an id: no id twice, every returned id present, and ids in
\* the order of their first occurrences.
C23_FirstSeenOrder ==
  (RecommendationsCall /\ pcall.resp.status = 200) =>
    LET items == pcall.resp.items
    IN  /\ \A i, j \in 1..Len(items) : items[i] = items[j] => i = j
        /\ \A id \in CatalogBookIds :
             Occurrences(id) # {} <=> \E i \in 1..Len(items) : items[i] = id
        /\ \A i, j \in 1..Len(items) :
             i < j =>
               \E p \in Occurrences(items[i]) :
                 \A q \in Occurrences(items[j]) :
                   Before(p[1], p[2], q[1], q[2])

C23_Witness ==
  /\ RecommendationsCall /\ pcall.resp.status = 200
  /\ Len(pcall.answers) = 2
  /\ pcall.answers[1].books = <<8>> /\ pcall.answers[2].books = <<7, 8>>
  /\ pcall.resp.items = <<8, 7>>

\* C24: a successful get_recommendations sends as many Catalog queries as
\* there are distinct genres among the user's stored preferences.
C24_Original ==
  (RecommendationsCall /\ pcall.resp.status = 200) =>
    Len(pcall.queries) = Cardinality({prefs[i].genre : i \in OwnPreferences})

\* The request got as far as the `if book.summary:` of its handler: the
\* first commit of create_book went through, update_book found the book.
ReachedGeneration ==
  \/ bcall.op = "create_book" /\ bcall.fault = "none"
  \/ /\ bcall.op = "update_book" /\ bcall.fault # "select"
     /\ bcall.resp.status # 404

\* C25: create_book and update_book call the summary generation once for a
\* non-empty summary text and not at all for a null or empty one; create_book
\* calls it after its commit, with the id the store assigned, and the book
\* is in the table whatever the call's outcome.
C25_GenerationOncePerText ==
  /\ ReachedGeneration =>
       IF bcall.book.summary \in {NullText, ""}
         THEN bcall.gen_calls = 0 /\ bcall.gen = "not_called"
         ELSE /\ bcall.gen_calls = 1 /\ bcall.gen \in {"ok", "failed"}
              /\ bcall.op = "update_book" => bcall.gen_id = bcall.id
              /\ bcall.op = "create_book" =>
                    /\ bcall.gen_id = bcall.resp.book.id
                    /\ \E row \in books : /\ row.id = bcall.gen_id
                                           /\ row.title = bcall.book.title
  /\ (bcall.op = "create_book" /\ bcall.fault = "commit") =>
       (bcall.gen_calls = 0 /\ bcall.resp.status = 500)

C25_Witness ==
  /\ bcall.op = "create_book" /\ bcall.book.summary = "A"
  /\ bcall.gen = "failed" /\ bcall.gen_calls = 1 /\ bcall.gen_id = 2
  /\ \E row \in books : row.id = 2 /\ row.summary = "A"

\* C26: an update_book whose payload has no summary keeps the summary the
\* book had: it is returned and stays stored, while the title is updated.
C26_Original ==
  [][(/\ bcall'.op = "update_book" /\ bcall'.book.summary = NullText
      /\ bcall'.resp.status = 200) =>
       \A row \in books :
         row.id = bcall'.id =>
           /\ bcall'.resp.book.summary = row.summary
           /\ bcall'.resp.book.title = bcall'.book.title
           /\ \E kept \in books' : /\ kept.id = row.id
                                    /\ kept.summary = row.summary
                                    /\ kept.title = bcall'.book.title
    ]_vars

\* C27: a create_review for a book that the Catalog Service does not have is
\* answered 404, stores no review and calls log_action not at all.
C27_Original ==
  (/\ rcall.op = "create_review" /\ rcall.fault = "none"
   /\ rcall.rating >= RatingMin /\ rcall.rating <= RatingMax
   /\ GetBookOutcome(books, rcall.book_id, "none").resp.status = 404) =>
    /\ rcall.resp.status = 404
    /\ rcall.logs = 0
    /\ ~\E row \in reviews : row.book_id = rcall.book_id

\* C28: a generate_summary that finds the book missing in the Catalog ends
\* at once with 404: it has made no backend call and no write, and its
\* response carries no record, also when the requester has a stored summary
\* for the book.
C28_VerifyBeforeCache ==
  [][\A r \in Reqs, p \in Pairs, c \in Contents, f \in BOOLEAN :
       (ValidContent(c) /\ ReceiveGenerateSummary(r, p[1], p[2], c, f, "404")) =>
         /\ req'[r].pc = "done"
         /\ req'[r].resp.status = 404
         /\ req'[r].resp.row = NoRow
         /\ req'[r].calls = 0 /\ ~req'[r].wrote
         /\ store' = store
    ]_vars

C28_Witness ==
  \E r \in Reqs :
    /\ req[r].op = "generate_summary" /\ req[r].pc = "done"
    /\ req[r].resp.status = 404 /\ req[r].resp.row = NoRow
    /\ req[r].had /\ ~req[r].refresh /\ req[r].calls = 0
    /\ \E row \in store : /\ row.book_id = req[r].book_id
                           /\ row.user_id = req[r].user_id

C30_OwnerOnly ==
  [][LET c == rcall'
         target == {row \in reviews : row.id = c.review_id}
     IN  /\ c.op \in {"update_review", "delete_review"} =>
               /\ (c.resp.status # 422 /\ c.fault = "none" /\ target = {}) =>
                     (c.resp.status = 404 /\ reviews' = reviews)
               /\ (/\ c.resp.status # 422 /\ c.fault = "none"
                   /\ \E row \in target : row.user_id # c.user_id) =>
                     (c.resp.status = 403 /\ reviews' = reviews)
               /\ reviews' # reviews =>
                     /\ c.resp.status = 200
                     /\ \E row \in target : row.user_id = c.user_id
                     /\ {row \in reviews' : row.id # c.review_id}
                          = {row \in reviews : row.id # c.review_id}
         /\ \A old \in reviews, new \in reviews' :
               old.id = new.id =>
                 (old.book_id = new.book_id /\ old.user_id = new.user_id)
    ]_vars

C30_Witness ==
  /\ rcall.op = "update_review" /\ rcall.resp.status = 403
  /\ rcall.user_id = 2 /\ rcall.rating = 5 /\ rcall.comment = "good"
  /\ \E row \in reviews : /\ row.id = rcall.review_id /\ row.user_id = 1
                           /\ row.rating = 2 /\ row.comment = NullText

====
